---- MODULE Spec2Model ----
(***************************************************************************)
(* Model of scripts/pushplus_notify.py: one invocation of main() reads the *)
(* reminder store, walks the loaded array in order, sends every pending    *)
(* and due reminder through PushPlus, records the outcome in the in-memory *)
(* record and writes the whole array back.                                 *)
(*                                                                         *)
(* Environment: the store file, the wall clock, the PUSHPLUS_TOKEN         *)
(* and REMINDER_TIMEZONE_OFFSET variables and the provider's answer to     *)
(* each send.  Start times and "now" are instants of the one configured    *)
(* zone, counted in seconds.                                               *)
(* Observations: `log` records every store read, send, store write and     *)
(* process exit, tagged with the number of the run that made it.           *)
(***************************************************************************)
EXTENDS Integers, Sequences, FiniteSets, TLC

\* ------------------------------------------------------------------ bounds
MaxLen == 2        \* longest stored array
MaxRuns == 2       \* invocations of main() in one behaviour
MaxNow == 5        \* the clock is read over 0..MaxNow seconds
SecPerMin == 2     \* seconds in a minute (scaled down from 60)

\* The operating-system processes main() can run in.  Spec starts the
\* invocations one after another, all of them in "A".
Procs == {"A", "B"}

\* ------------------------------------------------------------- data model
\* A startTime value as it sits in the JSON record:
\*   HM     a string "YYYY-MM-DD HH:MM" naming minute `min`
\*   HMS    a string "YYYY-MM-DD HH:MM:SS" naming minute `min`, second `sec`
\*   bad    any other string ("not-a-date", "")
\*   absent the key is missing
\*   nonstr a JSON value that is no string (null, a number)
ST(fmt, min, sec) == [fmt |-> fmt, min |-> min, sec |-> sec]
EmptyString == ST("bad", 0, 0)

\* One element of the stored array.  shape = "nondict" is an element that is
\* no JSON object (a number, a string, a list); its other fields are unused.
\* taskItems: "absent", "list" (a JSON array of strings) or "noniter" (a
\* truthy value that cannot be iterated, such as the number 5).
\* sentAt / failReason: <<>> when the key is absent, <<v>> when present.
Rec(id, shape, status, startTime, taskItems, sentAt, failReason) ==
    [id |-> id, shape |-> shape, status |-> status, startTime |-> startTime,
     taskItems |-> taskItems, sentAt |-> sentAt, failReason |-> failReason,
     extra |-> id]

Fields == {"id", "shape", "status", "startTime", "taskItems", "sentAt",
           "failReason", "extra"}

\* The elements stores are built from.
RecordPool ==
    { Rec(1, "dict", "pending", ST("HM", 1, 0), "list", <<>>, <<>>),
      Rec(2, "dict", "pending", ST("HM", 2, 0), "absent", <<>>, <<>>),
      Rec(3, "dict", "pending", ST("HMS", 1, 1), "list", <<>>, <<>>),
      Rec(4, "dict", "pending", ST("bad", 0, 0), "list", <<>>, <<>>),
      Rec(5, "dict", "pending", ST("nonstr", 0, 0), "list", <<>>, <<>>),
      Rec(6, "dict", "pending", ST("HM", 0, 0), "noniter", <<>>, <<>>),
      Rec(7, "dict", "sent", ST("HM", 0, 0), "list", <<0>>, <<>>),
      Rec(8, "dict", "failed", ST("absent", 0, 0), "list", <<>>, <<"msg">>),
      Rec(9, "dict", "other", ST("HM", 0, 0), "list", <<>>, <<>>),
      Rec(10, "nondict", "other", ST("absent", 0, 0), "absent", <<>>, <<>>) }

Arrays == UNION { [1..n -> RecordPool] : n \in 0..MaxLen }

\* The store resource: no file, a JSON array, JSON that is no array, or
\* bytes that do not parse as JSON.
File(kind, recs) == [kind |-> kind, recs |-> recs]
Stores == { File("array", a) : a \in Arrays }
            \cup { File(k, <<>>) : k \in {"missing", "nonarray", "corrupt"} }

\* PUSHPLUS_TOKEN: unset, set to the empty string, or set.
Tokens == {"unset", "empty", "tok"}

\* REMINDER_TIMEZONE_OFFSET: unset (the default "8"), an hour offset, or a
\* value int() or timezone() rejects with ValueError ("x", "24").
TzOffsets == {"unset", "hours", "invalid"}

\* What one call of send_notification meets: a transport failure (post
\* raises, raise_for_status raises, the body is no JSON object), or a JSON
\* object with `code` (0: the key is missing) and possibly `msg`.
Resp(raises, code, hasMsg) == [raises |-> raises, code |-> code, hasMsg |-> hasMsg]
Responses == { Resp(TRUE, 0, FALSE), Resp(FALSE, 200, TRUE),
               Resp(FALSE, 500, TRUE), Resp(FALSE, 0, FALSE) }

VARIABLES
    file,         \* the store resource
    clock,        \* the latest instant the wall clock was read at, in seconds
    nruns,        \* invocations started so far
    log,          \* observed events, oldest first
    pc,           \* pc[p]: "idle", "load", "loop", "exited"
    run,          \* run[p]: number of p's current (or last) invocation
    token,        \* token[p]
    reminders,    \* reminders[p]: the in-memory list
    loaded,       \* loaded[p]: the list as load_reminders returned it
    now,          \* now[p]
    idx,          \* idx[p]: position of the for loop (1-based)
    sent_count, fail_count, skip_count,
    exitCode,     \* exitCode[p]: -1 while running
    how           \* how[p]: "none", "return", "sys_exit", "exception"

vars == <<file, clock, nruns, log, pc, run, token, reminders, loaded, now, idx,
          sent_count, fail_count, skip_count, exitCode, how>>

locals == <<reminders, loaded, now, idx, sent_count, fail_count, skip_count>>

\* ------------------------------------------------------------ observations
\* ev = "read":  the store was opened and parsed; info = its kind, n = length
\* ev = "send":  send_notification was called for element n; info = "sent"
\*               when the record was then marked sent, "failed" otherwise
\* ev = "write": save_reminders wrote n elements
\* ev = "exit":  the process ended with exit status n; info = how
\*               resp = what the call did, for "send" only (NoResp otherwise)
NoResp == Resp(FALSE, -1, FALSE)
Ev(ev, r, n, info) == [ev |-> ev, run |-> r, n |-> n, info |-> info, resp |-> NoResp]

\* ---------------------------------------------------------- pure functions
\* parse_start_time: strptime with "%Y-%m-%d %H:%M", then with
\* "%Y-%m-%d %H:%M:%S"; ValueError moves on to the next format, any other
\* error (TypeError for an argument that is no str) is not caught.
\* Result: raised, or none (None), or the instant t.
Parsed(raised, none, t) == [raised |-> raised, none |-> none, t |-> t]
parse_start_time(start_time_str) ==
    IF start_time_str.fmt = "nonstr" THEN Parsed(TRUE, FALSE, 0)
    ELSE IF start_time_str.fmt = "HM"
         THEN Parsed(FALSE, FALSE, start_time_str.min * SecPerMin)
    ELSE IF start_time_str.fmt = "HMS"
         THEN Parsed(FALSE, FALSE, start_time_str.min * SecPerMin + start_time_str.sec)
    ELSE Parsed(FALSE, TRUE, 0)

\* reminder.get("startTime", "")
get_startTime(reminder) ==
    IF reminder.startTime.fmt = "absent" THEN EmptyString ELSE reminder.startTime

\* The status test left out: every record is taken for pending.
NotPending_Never(reminder) == FALSE

\* reminder.get("status") != "pending"
NotPending(reminder) == reminder.status /= "pending"

\* The boundary excluded: a record whose time is now waits for a later run.
NotDue_Inclusive(start_dt, now_) == start_dt >= now_

\* start_dt > now
NotDue(start_dt, now_) == start_dt > now_

\* build_reminder_message: joins the task items when taskItems is truthy,
\* which raises TypeError for a value that cannot be iterated.  The message
\* carries the id, the startTime string and the send time.
build_reminder_message(reminder, now_) ==
    [raised |-> reminder.taskItems = "noniter",
     id |-> reminder.id, startTime |-> reminder.startTime, sendTime |-> now_]

\* now.isoformat()
isoformat(now_) == <<now_>>

\* Truthiness in place of the comparison: any non-zero code passes.
IsDelivered_Truthy(result) == result.code /= 0

\* result.get("code") == 200
IsDelivered(result) == result.code = 200

\* result.get("msg", "未知错误")
get_msg(result) == IF result.hasMsg THEN <<"msg">> ELSE <<"unknown_error">>

\* The status assignment left out: only sentAt is set.
MarkSent_NoStatus(reminder, now_) == [reminder EXCEPT !.sentAt = isoformat(now_)]

\* reminder["status"] = "sent"; reminder["sentAt"] = now.isoformat()
MarkSent(reminder, now_) ==
    [reminder EXCEPT !.status = "sent", !.sentAt = isoformat(now_)]

\* The send time stamped on a failure as well.
MarkFailed_Stamped(reminder, reason) ==
    [reminder EXCEPT !.status = "failed", !.failReason = reason, !.sentAt = <<0>>]

\* reminder["status"] = "failed"; reminder["failReason"] = reason
MarkFailed(reminder, reason) ==
    [reminder EXCEPT !.status = "failed", !.failReason = reason]

\* The try block, lines 174-188: whether the call counts as delivered
\* (it returned and the answer's code is 200) and the record after it.
Delivered(resp) == ~resp.raises /\ IsDelivered(resp)
Outcome(reminder, now_, resp) ==
    IF resp.raises THEN MarkFailed(reminder, <<"exc">>)
    ELSE IF IsDelivered(resp) THEN MarkSent(reminder, now_)
    ELSE MarkFailed(reminder, get_msg(resp))

\* What one pass of the loop body does with a record, in the code's order.
Examine(reminder, now_) ==
    IF reminder.shape /= "dict" THEN "raise"               \* .get on a non-dict
    ELSE IF NotPending(reminder) THEN "continue"
    ELSE LET start_dt == parse_start_time(get_startTime(reminder)) IN
         IF start_dt.raised THEN "raise"
         ELSE IF start_dt.none THEN "skip"
         ELSE IF NotDue(start_dt.t, now_) THEN "skip"
         ELSE IF build_reminder_message(reminder, now_).raised THEN "raise"
         ELSE "send"

\* token is None: an empty token passes.
TokenMissing_NoneOnly(tok) == tok = "unset"

\* int(os.environ.get("REMINDER_TIMEZONE_OFFSET", "8")) and get_tz raise.
TzRaises(tz_offset) == tz_offset = "invalid"

\* not token
TokenMissing(tok) == tok \in {"unset", "empty"}

\* The os.path.exists test left out: open() raises for a missing file.
load_reminders_NoExists(f) ==
    IF f.kind \in {"missing", "corrupt"} THEN [raised |-> TRUE, opened |-> TRUE, data |-> <<>>]
    ELSE IF f.kind /= "array" THEN [raised |-> FALSE, opened |-> TRUE, data |-> <<>>]
    ELSE [raised |-> FALSE, opened |-> TRUE, data |-> f.recs]

\* load_reminders: what it returns, or that json.load raised.
load_reminders(f) ==
    IF f.kind = "missing" THEN [raised |-> FALSE, opened |-> FALSE, data |-> <<>>]
    ELSE IF f.kind = "corrupt" THEN [raised |-> TRUE, opened |-> TRUE, data |-> <<>>]
    ELSE IF f.kind /= "array" THEN [raised |-> FALSE, opened |-> TRUE, data |-> <<>>]
    ELSE [raised |-> FALSE, opened |-> TRUE, data |-> f.recs]

\* sys.exit(1) in place of return when there is nothing to do.
AfterLoad_Fatal(rs) == IF Len(rs) = 0 THEN "sys_exit" ELSE "continue"

\* if not reminders: return
AfterLoad(rs) == IF Len(rs) = 0 THEN "return" ELSE "continue"

\* Only the records still worth keeping are written: sent ones are dropped.
NotSent(r) == r.status /= "sent"
save_reminders_Pruned(rs) == File("array", SelectSeq(rs, NotSent))

\* save_reminders: the store after the write.
save_reminders(rs) == File("array", rs)

\* Off by one: fail_count >= 0.
AfterSave_AtLeast(fails) == IF fails >= 0 THEN "sys_exit" ELSE "return"

\* if fail_count > 0: sys.exit(1)
AfterSave(fails) == IF fails > 0 THEN "sys_exit" ELSE "return"

\* Exit status of the process for each way main() ends.
ExitStatus(h) == IF h = "return" THEN 0 ELSE 1

\* ------------------------------------------------------------------- Init
Init ==
    /\ file \in Stores
    /\ clock = 0
    /\ nruns = 0
    /\ log = <<>>
    /\ pc = [p \in Procs |-> "idle"]
    /\ run = [p \in Procs |-> 0]
    /\ token = [p \in Procs |-> "unset"]
    /\ reminders = [p \in Procs |-> <<>>]
    /\ loaded = [p \in Procs |-> <<>>]
    /\ now = [p \in Procs |-> 0]
    /\ idx = [p \in Procs |-> 0]
    /\ sent_count = [p \in Procs |-> 0]
    /\ fail_count = [p \in Procs |-> 0]
    /\ skip_count = [p \in Procs |-> 0]
    /\ exitCode = [p \in Procs |-> -1]
    /\ how = [p \in Procs |-> "none"]

\* ---------------------------------------------------------------- actions
\* The process ends: h is how, the exit status follows.
Exit(p, h, events) ==
    /\ pc' = [pc EXCEPT ![p] = "exited"]
    /\ how' = [how EXCEPT ![p] = h]
    /\ exitCode' = [exitCode EXCEPT ![p] = ExitStatus(h)]
    /\ log' = log \o events \o <<Ev("exit", run[p], ExitStatus(h), h)>>

\* main(), lines 133-140: a new process starts and reads its environment:
\* it exits 1 without a token, and ends with a traceback when the time zone
\* offset is no valid number of hours.
Start(p) ==
    /\ pc[p] \in {"idle", "exited"}
    /\ nruns < MaxRuns
    /\ \E tok \in Tokens : \E tz_offset \in TzOffsets :
        LET h == IF TokenMissing(tok) THEN "sys_exit"
                 ELSE IF TzRaises(tz_offset) THEN "exception"
                 ELSE "none"
        IN
        /\ token' = [token EXCEPT ![p] = tok]
        /\ nruns' = nruns + 1
        /\ run' = [run EXCEPT ![p] = nruns + 1]
        /\ reminders' = [reminders EXCEPT ![p] = <<>>]
        /\ loaded' = [loaded EXCEPT ![p] = <<>>]
        /\ now' = [now EXCEPT ![p] = 0]
        /\ idx' = [idx EXCEPT ![p] = 0]
        /\ sent_count' = [sent_count EXCEPT ![p] = 0]
        /\ fail_count' = [fail_count EXCEPT ![p] = 0]
        /\ skip_count' = [skip_count EXCEPT ![p] = 0]
        /\ how' = [how EXCEPT ![p] = h]
        /\ IF h = "none"
           THEN /\ pc' = [pc EXCEPT ![p] = "load"]
                /\ exitCode' = [exitCode EXCEPT ![p] = -1]
                /\ log' = log
           ELSE /\ pc' = [pc EXCEPT ![p] = "exited"]
                /\ exitCode' = [exitCode EXCEPT ![p] = ExitStatus(h)]
                /\ log' = Append(log, Ev("exit", nruns + 1, ExitStatus(h), h))
    /\ UNCHANGED <<file, clock>>

\* main(), lines 143-153: load the store, return when there is nothing,
\* read the clock, zero the counters.  datetime.now() returns an instant
\* that is not before the one the previous reading returned.
Load(p) ==
    /\ pc[p] = "load"
    /\ LET got == load_reminders(file)
           reads == IF got.opened
                    THEN <<Ev("read", run[p], Len(file.recs), file.kind)>>
                    ELSE <<>>
       IN IF got.raised
          THEN /\ Exit(p, "exception", reads)
               /\ UNCHANGED <<clock, locals>>
          ELSE IF AfterLoad(got.data) /= "continue"
          THEN /\ Exit(p, AfterLoad(got.data), reads)
               /\ UNCHANGED <<clock, locals>>
          ELSE /\ \E t \in clock..MaxNow :
                    /\ clock' = t
                    /\ now' = [now EXCEPT ![p] = t]
               /\ reminders' = [reminders EXCEPT ![p] = got.data]
               /\ loaded' = [loaded EXCEPT ![p] = got.data]
               /\ idx' = [idx EXCEPT ![p] = 1]
               /\ sent_count' = [sent_count EXCEPT ![p] = 0]
               /\ fail_count' = [fail_count EXCEPT ![p] = 0]
               /\ skip_count' = [skip_count EXCEPT ![p] = 0]
               /\ pc' = [pc EXCEPT ![p] = "loop"]
               /\ log' = log \o reads
               /\ UNCHANGED <<exitCode, how>>
    /\ UNCHANGED <<file, nruns, run, token>>

\* The record the for loop is at.
InLoop(p) == pc[p] = "loop" /\ idx[p] <= Len(reminders[p])
\* The array walked from its end: for reminder in reversed(reminders).
Current_Reversed(p) == reminders[p][Len(reminders[p]) + 1 - idx[p]]
Current(p) == reminders[p][idx[p]]
Branch(p) == Examine(Current(p), now[p])

\* A record that is not pending counted among the skipped ones.
Continue_Counted(p) ==
    /\ InLoop(p)
    /\ Branch(p) = "continue"
    /\ skip_count' = [skip_count EXCEPT ![p] = skip_count[p] + 1]
    /\ idx' = [idx EXCEPT ![p] = idx[p] + 1]
    /\ UNCHANGED <<file, clock, nruns, log, pc, run, token, reminders, loaded, now,
                   sent_count, fail_count, exitCode, how>>

\* Line 157-158: a record that is not pending is passed over.
Continue(p) ==
    /\ InLoop(p)
    /\ Branch(p) = "continue"
    /\ idx' = [idx EXCEPT ![p] = idx[p] + 1]
    /\ UNCHANGED <<file, clock, nruns, log, pc, run, token, reminders, loaded, now,
                   sent_count, fail_count, skip_count, exitCode, how>>

\* Lines 160-170: startTime does not parse, or is later than now.
Skip(p) ==
    /\ InLoop(p)
    /\ Branch(p) = "skip"
    /\ skip_count' = [skip_count EXCEPT ![p] = skip_count[p] + 1]
    /\ idx' = [idx EXCEPT ![p] = idx[p] + 1]
    /\ UNCHANGED <<file, clock, nruns, log, pc, run, token, reminders, loaded, now,
                   sent_count, fail_count, exitCode, how>>

\* The store written back after every send instead of once at the end.
Dispatch_SaveEach(p) ==
    /\ InLoop(p)
    /\ Branch(p) = "send"
    /\ \E resp \in Responses :
        /\ reminders' = [reminders EXCEPT ![p][idx[p]] = Outcome(Current(p), now[p], resp)]
        /\ log' = log \o <<[Ev("send", run[p], idx[p],
                               IF Delivered(resp) THEN "sent" ELSE "failed")
                            EXCEPT !.resp = resp],
                           Ev("write", run[p], Len(reminders[p]), "")>>
        /\ sent_count' = [sent_count EXCEPT ![p] = IF Delivered(resp) THEN @ + 1 ELSE @]
        /\ fail_count' = [fail_count EXCEPT ![p] = IF Delivered(resp) THEN @ ELSE @ + 1]
    /\ file' = save_reminders(reminders'[p])
    /\ idx' = [idx EXCEPT ![p] = idx[p] + 1]
    /\ UNCHANGED <<clock, nruns, pc, run, token, loaded, now, skip_count,
                   exitCode, how>>

\* Lines 173-188: build the message, call send_notification, record the
\* outcome in the in-memory record.
Dispatch(p) ==
    /\ InLoop(p)
    /\ Branch(p) = "send"
    /\ \E resp \in Responses :
        /\ reminders' = [reminders EXCEPT ![p][idx[p]] = Outcome(Current(p), now[p], resp)]
        /\ log' = Append(log, [Ev("send", run[p], idx[p],
                                    IF Delivered(resp) THEN "sent" ELSE "failed")
                                 EXCEPT !.resp = resp])
        /\ sent_count' = [sent_count EXCEPT ![p] = IF Delivered(resp) THEN @ + 1 ELSE @]
        /\ fail_count' = [fail_count EXCEPT ![p] = IF Delivered(resp) THEN @ ELSE @ + 1]
    /\ idx' = [idx EXCEPT ![p] = idx[p] + 1]
    /\ UNCHANGED <<file, clock, nruns, pc, run, token, loaded, now, skip_count,
                   exitCode, how>>

\* An exception raised outside the try block (lines 157, 161, 173) ends
\* the process with a traceback; nothing is saved.
Raise(p) ==
    /\ InLoop(p)
    /\ Branch(p) = "raise"
    /\ Exit(p, "exception", <<>>)
    /\ UNCHANGED <<file, clock, nruns, run, token, locals>>

\* Lines 190-196: the loop is over; write the array back, print the
\* summary, exit 1 when a send failed.
Save(p) ==
    /\ pc[p] = "loop"
    /\ idx[p] > Len(reminders[p])
    /\ file' = save_reminders(reminders[p])
    /\ Exit(p, AfterSave(fail_count[p]), <<Ev("write", run[p], Len(reminders[p]), "")>>)
    /\ UNCHANGED <<clock, nruns, run, token, locals>>

Step(p) ==
    \/ Start(p)
    \/ Load(p)
    \/ Continue(p)
    \/ Skip(p)
    \/ Dispatch(p)
    \/ Raise(p)
    \/ Save(p)

\* One invocation at a time: the scheduler starts main() again only after
\* the previous process has ended.
Next == Step("A")

Spec == Init /\ [][Next]_vars

\* ------------------------------------------------ the write, step by step
\* save_reminders, line 112: open(REMINDERS_FILE, "w") truncates the file;
\* until json.dump has written and the file is closed the store holds no
\* complete JSON document.
SaveOpen(p) ==
    /\ pc[p] = "loop"
    /\ idx[p] > Len(reminders[p])
    /\ file' = File("corrupt", <<>>)
    /\ pc' = [pc EXCEPT ![p] = "dump"]
    /\ log' = Append(log, Ev("trunc", run[p], 0, ""))
    /\ UNCHANGED <<clock, nruns, run, token, locals, exitCode, how>>

\* save_reminders, lines 113-114, and main(), lines 193-196: json.dump writes
\* the array, the file is closed, the summary is printed, exit 1 when a send
\* failed.
SaveDump(p) ==
    /\ pc[p] = "dump"
    /\ file' = save_reminders(reminders[p])
    /\ Exit(p, AfterSave(fail_count[p]), <<Ev("write", run[p], Len(reminders[p]), "")>>)
    /\ UNCHANGED <<clock, nruns, run, token, locals>>

\* The process is interrupted (killed, or the machine stops) wherever it is
\* between its start and its end; nothing more of main() is executed.
Kill(p) ==
    /\ pc[p] \in {"load", "loop", "dump"}
    /\ Exit(p, "killed", <<>>)
    /\ UNCHANGED <<file, clock, nruns, run, token, locals>>

StepCrash(p) ==
    \/ Start(p)
    \/ Load(p)
    \/ Continue(p)
    \/ Skip(p)
    \/ Dispatch(p)
    \/ Raise(p)
    \/ SaveOpen(p)
    \/ SaveDump(p)
    \/ Kill(p)

\* One invocation at a time, each of which may be interrupted at any step.
NextCrash == StepCrash("A")

SpecCrash == Init /\ [][NextCrash]_vars

\* --------------------------------------------------- two processes at once
\* Two invocations of main() on the same store, their steps interleaved in
\* any order: nothing in the code makes one wait for the other.  The two
\* processes being alike, A is the name of the one that starts first.
NextTwo ==
    \/ Step("A")
    \/ run["A"] > 0 /\ Step("B")

SpecTwo == Init /\ [][NextTwo]_vars

\* ------------------------------------------------------ runs without end
\* The scheduler goes on invoking main(): once MaxRuns runs have been
\* observed the log is dropped and the count of runs starts again; the
\* store and the clock stay as they are, the ended process is gone.
Rotate(p) ==
    /\ pc[p] = "exited"
    /\ nruns = MaxRuns
    /\ nruns' = 0
    /\ log' = <<>>
    /\ run' = [run EXCEPT ![p] = 0]
    /\ pc' = [pc EXCEPT ![p] = "idle"]
    /\ token' = [token EXCEPT ![p] = "unset"]
    /\ reminders' = [reminders EXCEPT ![p] = <<>>]
    /\ loaded' = [loaded EXCEPT ![p] = <<>>]
    /\ now' = [now EXCEPT ![p] = 0]
    /\ idx' = [idx EXCEPT ![p] = 0]
    /\ sent_count' = [sent_count EXCEPT ![p] = 0]
    /\ fail_count' = [fail_count EXCEPT ![p] = 0]
    /\ skip_count' = [skip_count EXCEPT ![p] = 0]
    /\ exitCode' = [exitCode EXCEPT ![p] = -1]
    /\ how' = [how EXCEPT ![p] = "none"]
    /\ UNCHANGED <<file, clock>>

NextLive == Step("A") \/ Rotate("A")

\* The scheduler never stops invoking main(), and a started process goes on
\* to its end: every step of main() terminates (the HTTP call has a timeout).
SpecLive == Init /\ [][NextLive]_vars /\ WF_vars(NextLive)

\* ========================================================== observations
\* The positions of the log.
Logged == DOMAIN log
\* Send calls made for element i in run r.
SendsOf(r, i) == { k \in Logged : log[k].ev = "send" /\ log[k].run = r /\ log[k].n = i }
\* Send calls of run r, all of them or those with the given outcome.
SendsIn(r) == { k \in Logged : log[k].ev = "send" /\ log[k].run = r }
SendsWith(r, info) == { k \in SendsIn(r) : log[k].info = info }
ReadsIn(r) == { k \in Logged : log[k].ev = "read" /\ log[k].run = r }
WritesIn(r) == { k \in Logged : log[k].ev = "write" /\ log[k].run = r }
\* Run r has ended, and not by an uncaught exception.
Completed(r) ==
    \E k \in Logged : log[k].ev = "exit" /\ log[k].run = r /\ log[k].info /= "exception"
\* Process p has ended a run that went through the loop and saved.
Finished(p) == pc[p] = "exited" /\ WritesIn(run[p]) /= {}

\* ================================================================ claims

\* C1 - Idempotence across runs. Over any sequence of completed runs each
\* reminder (an element of the stored array, named by its position) is passed
\* to send_notification at most once: once a completed run has attempted a
\* send for it, successful or failed, no later call is made for it; and every
\* call is made for a record that was pending in the store when loaded.
C1_Idempotence ==
    /\ \A k1 \in Logged : \A k2 \in Logged :
          ( /\ k1 < k2
            /\ log[k1].ev = "send" /\ log[k2].ev = "send"
            /\ log[k1].n = log[k2].n )
          => ~Completed(log[k1].run)
    /\ \A p \in Procs : \A k \in SendsIn(run[p]) :
          loaded[p][log[k].n].status = "pending"

\* A second run has completed, with the clock where it stood in the first
\* run, over a store in which the first run had sent a reminder.
C1_Witness ==
    /\ nruns = 2
    /\ Finished("A")
    /\ run["A"] = 2
    /\ \E i \in 1..Len(file.recs) :
          /\ SendsOf(1, i) /= {}
          /\ Completed(1)
          /\ file.recs[i].sentAt = isoformat(now["A"])

\* C2 - Status transition relation. In every step a record, in memory or in
\* the store, either stays as it is or goes from pending to sent or from
\* pending to failed; a record that is not pending is never changed again, in
\* this run or a later one, so each record is mutated at most once.
StepOfRecord(a, b) ==
    \/ a = b
    \/ a.status = "pending" /\ b.status \in {"sent", "failed"}
C2_StatusTransitions ==
    [][ /\ \A p \in Procs :
             (run'[p] = run[p] /\ Len(reminders'[p]) = Len(reminders[p]))
             => \A i \in 1..Len(reminders[p]) :
                   StepOfRecord(reminders[p][i], reminders'[p][i])
        /\ file'.kind = file.kind
        /\ Len(file'.recs) = Len(file.recs)
        /\ \A i \in 1..Len(file.recs) : StepOfRecord(file.recs[i], file'.recs[i])
      ]_vars

\* Two runs have saved; a record failed in the first is still failed in the
\* store and another was sent by the second.
C2_Witness ==
    /\ Finished("A")
    /\ run["A"] = 2
    /\ WritesIn(1) /= {}
    /\ \E i \in 1..Len(file.recs) : \E j \in 1..Len(file.recs) :
          /\ SendsWith(1, "failed") \cap SendsOf(1, i) /= {}
          /\ file.recs[i].status = "failed"
          /\ SendsWith(2, "sent") \cap SendsOf(2, j) /= {}

\* The eligibility rule in the words of the data model: the element is a
\* record whose status is pending and whose startTime parses to an instant
\* that is not after `t`.
Eligible(r, t) ==
    /\ r.shape = "dict"
    /\ r.status = "pending"
    /\ r.startTime.fmt \in {"HM", "HMS"}
    /\ r.startTime.min * SecPerMin
          + (IF r.startTime.fmt = "HMS" THEN r.startTime.sec ELSE 0) <= t
\* A pending record whose startTime cannot be parsed.
Unparsable(r) ==
    /\ r.shape = "dict"
    /\ r.status = "pending"
    /\ r.startTime.fmt \notin {"HM", "HMS"}
\* Process p has ended a run that loaded a non-empty array.
RanBatch(p) == pc[p] = "exited" /\ Len(loaded[p]) > 0

\* C3 - Eligibility. In a run, send_notification is invoked for a record if
\* and only if its status is pending, its startTime parses and the parsed time
\* is <= now (the boundary is inclusive).
C3_Eligibility ==
    \A p \in Procs :
        RanBatch(p) =>
            \A i \in 1..Len(loaded[p]) :
                (SendsOf(run[p], i) /= {}) <=> Eligible(loaded[p][i], now[p])

\* C4 - Isolation of delivery failures. When the send for one eligible record
\* fails, every other eligible record of the batch is still sent, every
\* successful one is recorded as sent in the store written at the end of the
\* run, and the process exits non-zero.
C4_Isolation ==
    \A p \in Procs :
        (RanBatch(p) /\ SendsWith(run[p], "failed") /= {}) =>
            /\ \A i \in 1..Len(loaded[p]) :
                  Eligible(loaded[p][i], now[p]) => SendsOf(run[p], i) /= {}
            /\ WritesIn(run[p]) /= {}
            /\ \A k \in SendsWith(run[p], "sent") :
                  /\ file.kind = "array"
                  /\ log[k].n <= Len(file.recs)
                  /\ file.recs[log[k].n].status = "sent"
            /\ exitCode[p] /= 0

\* C5 - Exit signal. A run with the token configured that reaches the batch
\* epilogue exits non-zero if and only if its fail counter is > 0; a batch in
\* which every pending record was skipped exits 0 whatever the skip count.
C5_ExitSignal ==
    \A p \in Procs :
        Finished(p) =>
            /\ (exitCode[p] /= 0) <=> (fail_count[p] > 0)
            /\ exitCode[p] \in {0, 1}
            /\ SendsIn(run[p]) = {} => exitCode[p] = 0

\* A run that failed one reminder and skipped another has saved and exited
\* 1, and the skip left nothing to tell it from a success.
C5_Witness ==
    /\ Finished("A")
    /\ sent_count["A"] = 0
    /\ fail_count["A"] > 0
    /\ skip_count["A"] > 0
    /\ exitCode["A"] = 1

\* C6 - Skip safety. A pending record whose startTime cannot be parsed has no
\* send attempted, stays pending with all its fields unchanged, and increments
\* the skip counter by exactly one: the step of the loop that examines it
\* leaves the list and the log as they are, adds one to skip_count and goes on
\* to the next record.
C6_SkipSafety ==
    [][ \A p \in Procs :
          ( /\ InLoop(p)
            /\ Unparsable(Current(p))
            /\ <<pc[p], idx[p]>>' /= <<pc[p], idx[p]>> )
          => /\ reminders' = reminders
             /\ log' = log
             /\ skip_count'[p] = skip_count[p] + 1
             /\ sent_count'[p] = sent_count[p]
             /\ fail_count'[p] = fail_count[p]
             /\ pc'[p] = "loop"
      ]_vars

\* C7 - Per-record error containment. For every loaded array the loop reaches
\* the save step: only a missing token or unparsable store content ends the
\* process abnormally, so a run that loaded a non-empty array ends having
\* written the store, and an uncaught exception comes from the load alone.
C7_ErrorContainment ==
    \A p \in Procs :
        /\ RanBatch(p) => WritesIn(run[p]) /= {}
        /\ (pc[p] = "exited" /\ how[p] = "exception") => Len(loaded[p]) = 0

\* C8 - Empty store. When the store holds an empty array the run attempts no
\* send, exits with code 0, has zero sent / failed / skipped, and the store
\* still holds an empty array afterwards.
ReadEmptyArray(r) ==
    \E k \in ReadsIn(r) : log[k].info = "array" /\ log[k].n = 0
C8_EmptyStore ==
    \A p \in Procs :
        (pc[p] = "exited" /\ ReadEmptyArray(run[p])) =>
            /\ SendsIn(run[p]) = {}
            /\ exitCode[p] = 0
            /\ sent_count[p] = 0 /\ fail_count[p] = 0 /\ skip_count[p] = 0
            /\ file = File("array", <<>>)

\* A run with the token set has read an empty array and ended.
C8_Witness ==
    /\ pc["A"] = "exited"
    /\ token["A"] = "tok"
    /\ ReadEmptyArray(run["A"])
    /\ how["A"] = "return"

\* C9 - Missing token. When PUSHPLUS_TOKEN is absent or empty the process
\* exits with code 1 before the store is read or written and without any send
\* attempt: the only thing the run ever does is exit.
C9_MissingToken ==
    \A p \in Procs :
        (run[p] > 0 /\ token[p] \in {"unset", "empty"}) =>
            /\ pc[p] = "exited"
            /\ exitCode[p] = 1
            /\ \A k \in Logged : log[k].run = run[p] => log[k].ev = "exit"

\* A run started with the token set to the empty string, over a store that
\* holds records, has exited.
C9_Witness ==
    /\ token["A"] = "empty"
    /\ pc["A"] = "exited"
    /\ run["A"] > 0
    /\ file.kind = "array"
    /\ Len(file.recs) > 0

\* C10 - Frame of a run. A completed run leaves the collection's length and
\* element order unchanged, leaves every record that was non-pending, not yet
\* due or unparsable identical in all fields (the extra ones included), and
\* for each dispatched record changes only status plus sentAt (on success) or
\* failReason (on failure).
SameExcept(a, b, fs) == \A f \in Fields \ fs : a[f] = b[f]
C10_Frame ==
    \A p \in Procs :
        Finished(p) =>
            /\ file.kind = "array"
            /\ Len(file.recs) = Len(loaded[p])
            /\ \A i \in 1..Len(loaded[p]) :
                  LET a == loaded[p][i]
                      b == file.recs[i]
                  IN /\ ~Eligible(a, now[p]) => b = a
                     /\ SendsOf(run[p], i) = {} => b = a
                     /\ SendsWith(run[p], "sent") \cap SendsOf(run[p], i) /= {} =>
                           /\ SameExcept(a, b, {"status", "sentAt"})
                           /\ b.status = "sent"
                     /\ SendsWith(run[p], "failed") \cap SendsOf(run[p], i) /= {} =>
                           /\ SameExcept(a, b, {"status", "failReason"})
                           /\ b.status = "failed"

\* A second completed run dispatched one record and left the one the first
\* run had sent as it was.
C10_Witness ==
    /\ Finished("A")
    /\ run["A"] = 2
    /\ Len(loaded["A"]) = 2
    /\ \E i \in 1..2 : \E j \in 1..2 :
          /\ SendsOf(1, i) /= {}
          /\ loaded["A"][i].status = "sent"
          /\ file.recs[i] = loaded["A"][i]
          /\ SendsWith(2, "failed") \cap SendsOf(2, j) /= {}
          /\ file.recs[j].failReason /= <<>>

\* ------------------------------------------------------------------- C11
\* The run of process p got as far as load_reminders: its token and its time
\* zone offset were accepted.
ReachedLoad(p) ==
    /\ run[p] > 0
    /\ pc[p] /= "load"
    /\ ~TokenMissing(token[p])
    /\ ~(how[p] = "exception" /\ ReadsIn(run[p]) = {})

\* C11 as stated: every run that passes the token check (and, read in its
\* favour, the time zone check, and does not end by an exception) has, once
\* it has ended, read the store exactly once and written it exactly once.
C11_AsStated ==
    \A p \in Procs :
        ( /\ pc[p] = "exited"
          /\ ReachedLoad(p)
          /\ how[p] /= "exception" )
        => /\ Cardinality(ReadsIn(run[p])) = 1
           /\ Cardinality(WritesIn(run[p])) = 1

\* C11 (amended) - store access pattern: in every run the store is read at
\* most once, before any send, and written at most once, after the last
\* record has been processed, with no write between sends; a run that goes
\* through its whole batch reads exactly once and writes exactly once; a run
\* that ends before the batch epilogue (nothing to do, or an exception) does
\* not write, and one that finds no store resource does not read either.
C11_StoreAccess ==
    /\ \A r \in 1..nruns :
          /\ Cardinality(ReadsIn(r)) <= 1
          /\ Cardinality(WritesIn(r)) <= 1
          /\ \A s \in SendsIn(r) :
                /\ \E k \in ReadsIn(r) : k < s
                /\ \A w \in WritesIn(r) : s < w
    /\ \A p \in Procs :
          /\ WritesIn(run[p]) /= {} =>
                /\ pc[p] = "exited"
                /\ idx[p] = Len(loaded[p]) + 1
                /\ Len(loaded[p]) > 0
                /\ Cardinality(ReadsIn(run[p])) = 1
          /\ (pc[p] = "exited" /\ how[p] /= "exception" /\ Len(loaded[p]) > 0) =>
                Cardinality(WritesIn(run[p])) = 1
          /\ (pc[p] = "exited" /\ (how[p] = "exception" \/ Len(loaded[p]) = 0)) =>
                WritesIn(run[p]) = {}
          /\ (pc[p] = "exited" /\ ReachedLoad(p) /\ file.kind = "missing") =>
                ReadsIn(run[p]) = {}

\* A run has read the store, made two send calls and then written the store.
C11_Witness ==
    /\ Finished("A")
    /\ Cardinality(SendsIn(run["A"])) = 2
    /\ Cardinality(ReadsIn(run["A"])) = 1
    /\ Cardinality(WritesIn(run["A"])) = 1

\* ------------------------------------------------------------------- C12
\* C12 - atomic write-back: from the moment a run has loaded a non-empty
\* array, at every point of the run and after it, a crash included, the
\* store holds either the complete array the run loaded or the complete
\* array the run has in memory.
C12_AtomicWriteBack ==
    \A p \in Procs :
        Len(loaded[p]) > 0 =>
            \/ file = File("array", loaded[p])
            \/ file = File("array", reminders[p])

\* ------------------------------------------------------------------- C13
\* C13 - outcome classification: a record for which send_notification was
\* called is sent exactly when the call returned and the answer's code is
\* 200; for any other code, or none, it is failed with failReason the
\* answer's msg, or the fixed fallback when there is no msg; when the call
\* raised it is failed with failReason the exception text; each failure adds
\* one to the fail counter and nothing to the sent counter, each success one
\* to the sent counter and nothing to the fail counter.
C13_Outcome ==
    \A p \in Procs :
        /\ \A k \in SendsIn(run[p]) :
              LET resp == log[k].resp
                  r == reminders[p][log[k].n]
              IN /\ resp \in Responses
                 /\ r.status = "sent" <=> (~resp.raises /\ resp.code = 200)
                 /\ r.status \in {"sent", "failed"}
                 /\ (~resp.raises /\ resp.code /= 200 /\ resp.hasMsg) =>
                       r.failReason = <<"msg">>
                 /\ (~resp.raises /\ resp.code /= 200 /\ ~resp.hasMsg) =>
                       r.failReason = <<"unknown_error">>
                 /\ resp.raises => r.failReason = <<"exc">>
                 /\ r.status = "sent" => r.failReason = loaded[p][log[k].n].failReason
        /\ sent_count[p] =
              Cardinality({ k \in SendsIn(run[p]) :
                              ~log[k].resp.raises /\ log[k].resp.code = 200 })
        /\ fail_count[p] =
              Cardinality({ k \in SendsIn(run[p]) :
                              log[k].resp.raises \/ log[k].resp.code /= 200 })

\* One run made two send calls: one raised, the other returned an answer
\* with a code other than 200.
C13_Witness ==
    /\ Finished("A")
    /\ \E k1 \in SendsIn(run["A"]) : \E k2 \in SendsIn(run["A"]) :
          /\ log[k1].resp.raises
          /\ ~log[k2].resp.raises
          /\ log[k2].resp.code /= 200
    /\ fail_count["A"] = 2
    /\ sent_count["A"] = 0

\* ------------------------------------------------------------------- C14
\* A record carries sentAt only with status sent, failReason only with
\* status failed, and never both.
FieldsAgree(r) ==
    /\ r.sentAt /= <<>> => r.status = "sent"
    /\ r.failReason /= <<>> => r.status = "failed"
    /\ ~(r.sentAt /= <<>> /\ r.failReason /= <<>>)

\* C14 - sentAt/failReason: a run changes sentAt of a record only together
\* with setting its status from pending to sent, and to the run's now in ISO
\* form; it changes failReason only together with setting its status from
\* pending to failed; and, the store having started with pending records
\* that carry neither field, in every state every record, in the store and
\* in memory, with sentAt is sent, with failReason is failed, and none has
\* both.
C14_SentAtFailReason ==
    /\ file.kind = "array" => \A i \in 1..Len(file.recs) : FieldsAgree(file.recs[i])
    /\ \A p \in Procs : \A i \in 1..Len(reminders[p]) :
          LET a == loaded[p][i]
              b == reminders[p][i]
          IN /\ FieldsAgree(b)
             /\ b.sentAt /= a.sentAt =>
                   /\ a.status = "pending"
                   /\ b.status = "sent"
                   /\ b.sentAt = <<now[p]>>
                   /\ SendsOf(run[p], i) /= {}
             /\ b.failReason /= a.failReason =>
                   /\ a.status = "pending"
                   /\ b.status = "failed"
                   /\ SendsOf(run[p], i) /= {}
             /\ (b.status = "sent" /\ a.status /= "sent") => b.sentAt /= a.sentAt
             /\ (b.status = "failed" /\ a.status /= "failed") => b.failReason /= a.failReason

\* The store holds a record a run has marked sent and one it has marked
\* failed, next to each other.
C14_Witness ==
    /\ Finished("A")
    /\ Len(file.recs) = 2
    /\ \E i \in 1..2 : \E j \in 1..2 :
          /\ loaded["A"][i].status = "pending"
          /\ loaded["A"][j].status = "pending"
          /\ file.recs[i].status = "sent"
          /\ file.recs[i].sentAt = <<now["A"]>>
          /\ file.recs[j].status = "failed"
          /\ file.recs[j].failReason = <<"msg">>

\* ------------------------------------------------------------------- C15
\* Run r was interrupted before save_reminders began: it ended by being
\* killed or by an uncaught exception, and never opened the store to write.
TruncsIn(r) == { k \in Logged : log[k].ev = "trunc" /\ log[k].run = r }
Interrupted(r) ==
    /\ \E k \in Logged :
          log[k].ev = "exit" /\ log[k].run = r /\ log[k].info \in {"killed", "exception"}
    /\ TruncsIn(r) = {}

\* C15 - crash window: a run that is interrupted before save leaves the
\* store as it was before the run, so the records it had sent are still
\* pending there and only the changes made in memory are lost; and the next
\* run, once it has gone past such a record, has sent it again.
C15_CrashWindow ==
    \A p \in Procs :
        /\ ( /\ pc[p] = "exited"
             /\ Interrupted(run[p])
             /\ Len(loaded[p]) > 0 )
           => /\ file = File("array", loaded[p])
              /\ \A i \in 1..Len(loaded[p]) :
                    SendsOf(run[p], i) /= {} =>
                        /\ file.recs[i].status = "pending"
                        /\ reminders[p][i].status /= "pending"
        /\ \A r \in 1..nruns : \A i \in 1..MaxLen :
              ( /\ Interrupted(r)
                /\ SendsWith(r, "sent") \cap SendsOf(r, i) /= {}
                /\ run[p] = r + 1
                /\ idx[p] > i )
              => SendsOf(r + 1, i) /= {}

\* A run was killed after a successful send; the next run has sent the same
\* record again, successfully, and saved.
C15_Witness ==
    /\ run["A"] = 2
    /\ pc["A"] = "exited"
    /\ WritesIn(2) /= {}
    /\ \E k \in Logged : log[k].ev = "exit" /\ log[k].run = 1 /\ log[k].info = "killed"
    /\ Interrupted(1)
    /\ \E i \in 1..Len(file.recs) :
          /\ SendsWith(1, "sent") \cap SendsOf(1, i) /= {}
          /\ SendsWith(2, "sent") \cap SendsOf(2, i) /= {}
          /\ file.recs[i].status = "sent"

\* ------------------------------------------------------------------- C16
\* The latest write of the log.
LastWrite == { k \in Logged : log[k].ev = "write" /\ \A j \in Logged : log[j].ev = "write" => j <= k }

\* C16 - concurrent invocations are unsafe.  What the two reachable states
\* of the claim (C16_Witness) come from, in every state of two interleaved
\* runs: each run calls send_notification at most once for an element, and
\* for every element that was pending in the array it loaded, whatever the
\* other run has done to the store since; and each save replaces the whole
\* store by the saving run's in-memory array, whatever the other run wrote
\* before.
C16_Unsafe ==
    /\ \A p \in Procs : \A i \in 1..Len(loaded[p]) :
          /\ Cardinality(SendsOf(run[p], i)) <= 1
          /\ SendsOf(run[p], i) /= {} => loaded[p][i].status = "pending"
          /\ (i < idx[p] /\ Examine(loaded[p][i], now[p]) = "send") =>
                SendsOf(run[p], i) /= {}
    /\ \A k \in LastWrite : \A p \in Procs :
          (run[p] = log[k].run /\ pc[p] = "exited") =>
              file = File("array", reminders[p])

\* Two runs have loaded the same store, both have sent the same due
\* reminder, A has saved and then B has saved: a record A had marked sent in
\* the store is pending there again.
C16_Witness ==
    /\ pc["A"] = "exited" /\ pc["B"] = "exited"
    /\ \E ka \in WritesIn(run["A"]) : \E kb \in WritesIn(run["B"]) : ka < kb
    /\ \E i \in 1..Len(file.recs) :
          /\ SendsOf(run["A"], i) /= {}
          /\ SendsOf(run["B"], i) /= {}
    /\ \E j \in 1..Len(file.recs) :
          /\ loaded["A"][j].status = "pending"
          /\ reminders["A"][j].status = "sent"
          /\ file.recs[j].status = "pending"

\* ------------------------------------------------------------------- C17
\* C17 - sequential processing in load order: the loop examines the records
\* in the order of the loaded array, one after the other; the send calls of
\* a run are made in that order, each for the record at its position; when
\* a call is made every earlier record has been examined, and every earlier
\* record that was due has had its call, which has returned or raised (the
\* call is one blocking step of the only thread).
C17_LoadOrder ==
    \A p \in Procs :
        /\ pc[p] = "loop" => (idx[p] \in 1..(Len(loaded[p]) + 1) /\ file.recs = loaded[p])
        /\ \A k1 \in SendsIn(run[p]) : \A k2 \in SendsIn(run[p]) :
              k1 < k2 => log[k1].n < log[k2].n
        /\ \A k \in SendsIn(run[p]) :
              /\ log[k].n < idx[p]
              /\ log[k].resp \in Responses
              /\ SameExcept(loaded[p][log[k].n], reminders[p][log[k].n],
                            {"status", "sentAt", "failReason"})
              /\ reminders[p][log[k].n].status /= "pending"
        /\ \A j \in 1..Len(loaded[p]) :
              ( /\ j < idx[p]
                /\ Eligible(loaded[p][j], now[p]) )
              => SendsOf(run[p], j) /= {}
        /\ \A j \in 1..Len(loaded[p]) :
              j >= idx[p] => (SendsOf(run[p], j) = {} /\ reminders[p][j] = loaded[p][j])

\* The loop has sent the first record and stands at the second, which is
\* due as well and has not been sent yet.
C17_Witness ==
    /\ pc["A"] = "loop"
    /\ idx["A"] = 2
    /\ Len(loaded["A"]) = 2
    /\ SendsOf(run["A"], 1) /= {}
    /\ SendsOf(run["A"], 2) = {}
    /\ Examine(loaded["A"][2], now["A"]) = "send"

\* ------------------------------------------------------------------- C18
\* C18 - a missing or non-array store is an empty batch: the step in which
\* a run loads a store that does not exist, or whose content parses but is
\* no array, ends the run with exit status 0, by return, with no send and
\* no write, the store left as it is (no file created); and while the store
\* is missing or no array the log holds no send and no write at all.
C18_NoArray ==
    [][ \A p \in Procs :
          ( /\ pc[p] = "load"
            /\ pc'[p] /= "load"
            /\ file.kind \in {"missing", "nonarray"} )
          => /\ pc'[p] = "exited"
             /\ how'[p] = "return"
             /\ exitCode'[p] = 0
             /\ file' = file
             /\ Len(log') > Len(log)
             /\ \A k \in (DOMAIN log') \ (DOMAIN log) : log'[k].ev \in {"read", "exit"}
             /\ \A k \in DOMAIN log' : log'[k].ev \notin {"send", "write"}
             /\ (file.kind = "missing") =>
                   \A k \in (DOMAIN log') \ (DOMAIN log) : log'[k].ev = "exit"
      ]_vars

\* A run with a token has ended over a store that does not exist, and one
\* before it as well: both returned, the store still does not exist.
C18_Witness ==
    /\ file.kind = "missing"
    /\ pc["A"] = "exited"
    /\ run["A"] = 2
    /\ ~TokenMissing(token["A"])
    /\ how["A"] = "return"
    /\ exitCode["A"] = 0
    /\ log /= <<>>
    /\ \A k \in Logged : log[k].ev = "exit"

\* ------------------------------------------------------------------- C19
\* The positions of the loaded array of p that held a pending record, and
\* those whose record has another status now than when loaded.
PendingLoaded(p) ==
    { i \in 1..Len(loaded[p]) : loaded[p][i].shape = "dict" /\ loaded[p][i].status = "pending" }
StatusChanged(p) ==
    { i \in 1..Len(loaded[p]) : file.recs[i].status /= loaded[p][i].status }

\* C19 - counter accounting: at the end of every completed run over a
\* non-empty array, sent + failed + skipped is the number of records that
\* were pending when loaded (records with another status touch no counter),
\* the number of send_notification calls is sent + failed, and so is the
\* number of records whose status the run changed.
C19_Counters ==
    \A p \in Procs :
        Finished(p) =>
            /\ Len(loaded[p]) > 0
            /\ sent_count[p] + fail_count[p] + skip_count[p] = Cardinality(PendingLoaded(p))
            /\ Cardinality(SendsIn(run[p])) = sent_count[p] + fail_count[p]
            /\ Cardinality(StatusChanged(p)) = sent_count[p] + fail_count[p]
            /\ sent_count[p] = Cardinality(SendsWith(run[p], "sent"))
            /\ skip_count[p] =
                  Cardinality({ i \in PendingLoaded(p) : file.recs[i].status = "pending" })

\* A completed run over a pending record it sent and a record that was not
\* pending: one call, one counter at 1, the others at 0.
C19_Witness ==
    /\ Finished("A")
    /\ Len(loaded["A"]) = 2
    /\ Cardinality(PendingLoaded("A")) = 1
    /\ sent_count["A"] + fail_count["A"] = 1
    /\ skip_count["A"] = 0
    /\ Cardinality(StatusChanged("A")) = 1

\* ------------------------------------------------------------------- C20
\* Element i of the store is pending with a startTime that parses and that
\* the clock has reached; element i of the store is sent or failed.
DueInStore(i) ==
    /\ file.kind = "array"
    /\ i <= Len(file.recs)
    /\ Eligible(file.recs[i], clock)
Settled(i) ==
    /\ file.kind = "array"
    /\ i <= Len(file.recs)
    /\ file.recs[i].status \in {"sent", "failed"}

\* C20 - eventual dispatch: if runs keep being invoked and again and again
\* a run completes its batch, then a pending record whose parsable startTime
\* the clock has reached is eventually sent or failed in the store; a
\* pending record whose startTime does not parse is never changed in the
\* store, and every completed run counts it as skipped.
C20_EventualDispatch ==
    /\ \A i \in 1..MaxLen :
          ([]<>Finished("A")) => (DueInStore(i) ~> Settled(i))
    /\ [][ \A i \in 1..MaxLen :
             (file.kind = "array" /\ i <= Len(file.recs) /\ Unparsable(file.recs[i]))
             => (file'.kind = "array" /\ i <= Len(file'.recs) /\ file'.recs[i] = file.recs[i])
       ]_vars
    /\ [](Finished("A") =>
            /\ skip_count["A"] >=
                  Cardinality({ i \in 1..Len(loaded["A"]) : Unparsable(loaded["A"][i]) })
            /\ \A i \in 1..Len(loaded["A"]) :
                  Unparsable(loaded["A"][i]) => SendsOf(run["A"], i) = {})

\* Two runs have completed over a store with a record that was not due in
\* the first, which skipped it, and was due in the second, which sent it,
\* and a pending record whose startTime does not parse, skipped by both.
C20_Witness ==
    /\ Finished("A")
    /\ run["A"] = 2
    /\ WritesIn(1) /= {}
    /\ Len(file.recs) = 2
    /\ \E i \in 1..2 : \E j \in 1..2 :
          /\ SendsOf(1, i) = {}
          /\ SendsOf(2, i) /= {}
          /\ Settled(i)
          /\ Unparsable(file.recs[j])
          /\ skip_count["A"] = 1

====
